---------------------------- MODULE Spec2Model ----------------------------
(***************************************************************************)
(* AMF sidecar protocols: the TCP health-check server (amf-health.c) and   *)
(* the outbound cnode client (cnode/amf_cnode.c), with the two framing     *)
(* variants they are built on.                                             *)
(*                                                                         *)
(* The subsystems share no state.  Each behaviour exercises one of them    *)
(* (variable unit); the others stay in their initial, never-started state. *)
(*   unit = "frame"  : read_delimited / read_framed applied to a peer's    *)
(*                     byte stream, max_len drawn from 0..MaxLen           *)
(*   unit = "health" : amf_health_open / amf_health_close, the accept loop *)
(*                     and handle_connection                               *)
(*   unit = "cnode"  : amf_cnode_start / amf_cnode_stop, cnode_thread and  *)
(*                     serve_session                                       *)
(*   unit = "reg"    : amf_health_send_registration and the one-shot       *)
(*                     do_registration task                                *)
(*   unit = "codec"  : varint_encode, write_delimited and write_framed     *)
(*                     read back by read_delimited and read_framed         *)
(*   unit = "restart": amf_cnode_start / amf_cnode_stop called in any      *)
(*                     state, the client threads kept by handle            *)
(*                                                                         *)
(* Integers wider than TLC's are kept as digit sequences: the 64-bit       *)
(* msg_len of read_delimited as ten base-128 digits, the 32-bit            *)
(* payload_len of read_framed as four base-256 digits.  The (int) casts    *)
(* are computed from the digits as the two's-complement low 32 bits.       *)
(***************************************************************************)
EXTENDS Integers, Sequences, FiniteSets, TLC

(***************************************************************************)
(* Bounds of the model                                                     *)
(***************************************************************************)
\* the framing harness draws max_len from 0..MaxLen
MaxLen == 2
\* a peer delivers at most MaxBody body bytes of one frame
MaxBody == 3
\* the history counter of failed sessions saturates here
MaxFails == 8
\* the cnode server sends at most MaxReq request frames on one connection
MaxReq == 2
\* the codec harness writes payloads of up to MaxLen bytes and one of LongLen
LongLen == 130
\* the restart harness holds at most MaxTasks client threads that are not joined
MaxTasks == 2

(***************************************************************************)
(* Bytes a peer sends                                                      *)
(***************************************************************************)
\* varint prefix bytes of the framing harness: 0x80/0x81 continue, the rest end
PrefixBytes == {0, 1, 2, 3, 8, 16, 128, 129}
\* varint prefix bytes a health-check client sends (0x41 = 65 > 64)
HealthPrefixBytes == {0, 1, 2, 16, 65, 128}
\* fixed-prefix header bytes of the framing harness
HdrBytes == {0, 1, 2, 3, 128}
\* fixed-prefix header bytes the cnode server sends
CnodeHdrBytes == {0, 1, 255}
\* payload bytes
PayloadBytes == {8, 1}

Min(a, b) == IF a < b THEN a ELSE b

(***************************************************************************)
(* amf-health.c: varint_encode                                             *)
(* A uint64_t is four limbs, least significant first: three of 21 bits and *)
(* bit 63.                                                                 *)
(***************************************************************************)
\* (uint64_t)n for an int 0 <= n < 2^31
U64(n) == <<n % 2097152, n \div 2097152, 0, 0>>

\* a mutant of Shr7: v >>= 8
ShrBy8(v) == <<v[1] \div 256 + (v[2] % 256) * 8192,
               v[2] \div 256 + (v[3] % 256) * 8192,
               v[3] \div 256 + (v[4] % 256) * 8192,
               v[4] \div 256>>

\* v >>= 7
Shr7(v) == <<v[1] \div 128 + (v[2] % 128) * 16384,
             v[2] \div 128 + (v[3] % 128) * 16384,
             v[3] \div 128 + (v[4] % 128) * 16384,
             v[4] \div 128>>

\* if (v) ...; while (v)
NonZero(v) == \E k \in 1..4 : v[k] # 0

RECURSIVE VarintLoop(_, _, _, _)
VarintLoop(v, n, bufsz, buf) ==
    IF n >= bufsz THEN [n |-> -1, buf |-> buf]
    ELSE LET v2 == Shr7(v)
             b  == IF NonZero(v2) THEN (v[1] % 128) + 128 ELSE v[1] % 128
         IN  IF NonZero(v2) THEN VarintLoop(v2, n + 1, bufsz, Append(buf, b))
             ELSE [n |-> n + 1, buf |-> Append(buf, b)]

varint_encode(v, bufsz) == VarintLoop(v, 0, bufsz, <<>>)

(***************************************************************************)
(* Wire constants                                                          *)
(***************************************************************************)
HEALTH_RESP_SERVING == <<8, 1>>
HEALTH_RESP_NOT_SERVING == <<8, 2>>
HEALTH_RESP_LEN == 2
NODETYPE_AMF == <<8, 13>>
\* sizeof(req_buf) in handle_connection and in serve_session
HealthReqBuf == 64
CnodeReqBuf == 256
\* varint prefix: at most 10 bytes; fixed prefix: 4 bytes
VarintMax == 10
HdrLen == 4
BackoffCap == 30

(***************************************************************************)
(* The readers: read_delimited (variant "V") and read_framed (variant "F") *)
(*   hdr   prefix bytes consumed (i of read_delimited, total of the header *)
(*         loop of read_framed)                                            *)
(*   len   the digits of msg_len / payload_len, least significant first    *)
(*   decoded  the prefix was read to its end                               *)
(*   total body bytes stored in buf                                        *)
(*   ret   the return value, once phase = "done"                           *)
(*   req   buf offset up to which the body recv calls asked for bytes      *)
(***************************************************************************)
RdStart(variant, max_len) ==
    [variant |-> variant, max_len |-> max_len, phase |-> "hdr", hdr |-> 0,
     len |-> [k \in 1..(IF variant = "V" THEN VarintMax ELSE HdrLen) |-> 0],
     decoded |-> FALSE, total |-> 0, buf |-> <<>>, ret |-> 0, req |-> 0]

RdIdle == [RdStart("V", 0) EXCEPT !.phase = "idle"]

\* msg_len == 0, payload_len == 0
LenIsZero(rd) == \A k \in DOMAIN rd.len : rd.len[k] = 0

\* bits 0..30 of the length
Low31(rd) ==
    IF rd.variant = "V"
    THEN rd.len[1] + 128 * rd.len[2] + 16384 * rd.len[3] + 2097152 * rd.len[4]
         + 268435456 * (rd.len[5] % 8)
    ELSE rd.len[1] + 256 * rd.len[2] + 65536 * rd.len[3]
         + 16777216 * (rd.len[4] % 128)

\* bit 31 of the length
Bit31(rd) ==
    IF rd.variant = "V" THEN (rd.len[5] \div 8) % 2 ELSE rd.len[4] \div 128

\* bits 32..63 of the length are not all zero
HighBits(rd) ==
    /\ rd.variant = "V"
    /\ \/ rd.len[5] >= 16
       \/ \E k \in 6..VarintMax : rd.len[k] # 0

\* (int)msg_len, (int)payload_len: the low 32 bits, two's complement
AsInt(rd) == IF Bit31(rd) = 1 THEN (Low31(rd) - 2147483647) - 1 ELSE Low31(rd)

\* the declared length, as the unsigned value the prefix carries, exceeds max_len
DeclaredExceeds(rd) == HighBits(rd) \/ Bit31(rd) = 1 \/ Low31(rd) > rd.max_len

\* a mutant of TooLong: the length check is missing
TooLongNoCheck(rd) == FALSE

\* if ((int)msg_len > max_len) return -1;  if ((int)payload_len > max_len) return -1;
TooLong(rd) == AsInt(rd) > rd.max_len

\* the prefix is complete: the zero and max_len checks, and the body loop's first test
RdAfterPrefix(rd0) ==
    LET rd == [rd0 EXCEPT !.decoded = TRUE]
    IN  IF LenIsZero(rd) THEN [rd EXCEPT !.phase = "done", !.ret = 0]
        ELSE IF TooLong(rd) THEN [rd EXCEPT !.phase = "done", !.ret = -1]
        ELSE IF rd.total < AsInt(rd)
             THEN [rd EXCEPT !.phase = "body", !.req = AsInt(rd)]
        ELSE [rd EXCEPT !.phase = "done",
                        !.ret = IF rd.variant = "V" THEN rd.total ELSE AsInt(rd)]

\* (uint64_t)(b & 0x7F) << shift, shift = 7 * i: bits past bit 63 are lost
ShiftedDigit(b, i) == IF i = VarintMax - 1 THEN (b % 128) % 2 ELSE b % 128

\* read_delimited, one pass of the prefix loop with recv returning byte b
RdVarintByte(rd, b) ==
    LET r == [rd EXCEPT !.len[rd.hdr + 1] = ShiftedDigit(b, rd.hdr),
                        !.hdr = rd.hdr + 1]
    IN  IF b < 128 \/ r.hdr = VarintMax THEN RdAfterPrefix(r) ELSE r

\* read_framed, one pass of the header loop with recv returning the bytes bs
RdHeaderBytes(rd, bs) ==
    LET r == [rd EXCEPT !.len = [k \in 1..HdrLen |->
                                   IF k > rd.hdr /\ k <= rd.hdr + Len(bs)
                                   THEN bs[k - rd.hdr] ELSE rd.len[k]],
                        !.hdr = rd.hdr + Len(bs)]
    IN  IF r.hdr = HdrLen THEN RdAfterPrefix(r) ELSE r

\* one pass of the body loop with recv returning the bytes bs
RdBodyBytes(rd, bs) ==
    LET r == [rd EXCEPT !.buf = rd.buf \o bs, !.total = rd.total + Len(bs)]
    IN  IF r.total < AsInt(r) THEN r
        ELSE [r EXCEPT !.phase = "done",
                       !.ret = IF r.variant = "V" THEN r.total ELSE AsInt(r)]

\* recv returned n <= 0 (timeout, EOF, error) in either loop
RdRecvFail(rd) == [rd EXCEPT !.phase = "done", !.ret = -1]

\* the byte counts recv may return for the body: at most what was asked for
BodyCounts(rd) == 1..Min(AsInt(rd) - rd.total, MaxBody - rd.total)

(***************************************************************************)
(* amf-health.c: write_delimited, with send #1 taking k1 and send #2 taking *)
(* k2 bytes.  ret is the return value, sent the bytes that reached the wire *)
(***************************************************************************)
WriteDelimited(data, data_len, k1, k2) ==
    LET enc == varint_encode(U64(data_len), VarintMax)
    IN  IF enc.n < 0 THEN [ret |-> -1, sent |-> <<>>]
        ELSE IF k1 # enc.n THEN [ret |-> -1, sent |-> SubSeq(enc.buf, 1, k1)]
        ELSE IF k2 # data_len
             THEN [ret |-> -1, sent |-> enc.buf \o SubSeq(data, 1, k2)]
        ELSE [ret |-> 0, sent |-> enc.buf \o data]

\* the byte counts the two sends of write_delimited may take
WriteCounts(data_len) ==
    {<<k1, k2>> \in (0..varint_encode(U64(data_len), VarintMax).n) \X (0..data_len) :
        k1 < varint_encode(U64(data_len), VarintMax).n => k2 = 0}

(***************************************************************************)
(* State                                                                   *)
(***************************************************************************)
VARIABLES
    unit,           \* the subsystem this behaviour exercises
    calls,          \* history: the last two API calls since the last successful
                    \* open/start, <<the one before, the last>>
    main,           \* where the calling thread is: "idle", or inside a close/stop
    frd,            \* framing harness: the reader
    server_fd,      \* amf-health.c: server_fd
    server_running, \* amf-health.c: server_running
    lsock,          \* the listening socket: "none", "listening", or "orphan"
                    \* (descriptor closed, a blocked accept still holds it)
    hpc,            \* the accept-loop thread: "none" when there is no thread
    herrno,         \* errno of the last failed accept
    hrd,            \* read_delimited called by handle_connection
    conn,           \* the accepted connection
    g_running,      \* amf_cnode.c: g_running
    g_server_ip,    \* amf_cnode.c: g_server_ip: "", or an address inet_pton
                    \* takes ("valid") or refuses ("invalid")
    cpc,            \* the cnode thread: "none" when there is no thread
    backoff,        \* cnode_thread: backoff
    slept,          \* cnode_thread: slept
    fails,          \* history: sessions of this thread that ended in failure
    crd,            \* read_framed called by serve_session
    cconn,          \* the connection serve_session dialled
    job,            \* codec harness: what is encoded or written
    wire,           \* codec harness: the bytes written and not yet received
    g_reg_enable,   \* amf-health.c: g_reg_enable
    g_reg_server_ip,   \* amf-health.c: g_reg_server_ip: "", or an address
                       \* inet_pton takes ("valid") or refuses ("invalid")
    g_reg_server_port, \* amf-health.c: g_reg_server_port
    g_advertise_ip, \* amf-health.c: g_advertise_ip, the bytes of the string
    g_port,         \* amf-health.c: g_port
    rpc,            \* the registration task: "none" when there is none
    proto,          \* do_registration: proto[0..offset)
    rsock,          \* do_registration: the socket sfd
    rrd,            \* read_delimited called by do_registration
    reg,            \* history of the last amf_health_send_registration call
    g_thread,       \* amf_cnode.c: g_thread, the handle pthread_create stored
                    \* last; 0 before the first
    task            \* restart harness: the client threads, by handle

hvars == <<server_fd, server_running, lsock, hpc, herrno, hrd, conn>>
cvars == <<g_running, g_server_ip, cpc, backoff, slept, fails, crd, cconn>>
kvars == <<job, wire>>
rvars == <<g_reg_enable, g_reg_server_ip, g_reg_server_port, g_advertise_ip, g_port,
           rpc, proto, rsock, rrd, reg>>
tvars == <<g_thread, task>>
vars == <<unit, calls, main, frd, hvars, cvars, kvars, rvars, tvars, tvars>>

NoFd == -1
NoCalls == <<"none", "none">>
LogCall(outcome) == <<calls[2], outcome>>
\* conn: state "none", "open" or "closed"; rret what read_delimited returned;
\* wire the bytes sent to the client; writes the calls of write_delimited;
\* wret what write_delimited returned
NoConn == [state |-> "none", rret |-> 0, wire |-> <<>>, writes |-> 0, wret |-> 0]

HealthStopped ==
    /\ server_fd = NoFd /\ server_running = 0 /\ lsock = "none"
    /\ hpc = "none" /\ herrno = "none" /\ hrd = RdIdle /\ conn = NoConn

\* cconn: state "none", "open" or "closed"; peer "active" (sends when read),
\* "silent" (keeps the connection and sends nothing more) or "closed";
\* idsent the bytes of the identity frame that reached the wire; reqs the request
\* frames read; attempts the reply writes made; replies the replies written in
\* full; x the payload of the last request; rep the bytes of the last reply
\* that reached the wire; wret what the last write_framed returned
NoCconn == [state |-> "none", peer |-> "none", idsent |-> <<>>, reqs |-> 0,
            attempts |-> 0, replies |-> 0, x |-> <<>>, rep |-> <<>>, wret |-> 0]

CnodeStopped ==
    /\ g_running = 0 /\ g_server_ip = "" /\ cpc = "none"
    /\ backoff = 1 /\ slept = 0 /\ fails = 0
    /\ crd = RdIdle /\ cconn = NoCconn

\* job: kind "none", "varint" (varint_encode of v into bufsz bytes, then the
\* prefix decoder of read_delimited) or "frame" (a payload written and read back);
\* phase "new", "sent" or "done"; n and buf what varint_encode returned and
\* wrote; wret what the write returned
NoJob == [kind |-> "none", phase |-> "done", v |-> <<0, 0, 0, 0>>, bufsz |-> 0,
          n |-> 0, buf |-> <<>>, variant |-> "V", payload |-> <<>>, wret |-> 0]

CodecStopped == job = NoJob /\ wire = <<>>

\* task[t]: "none" no such thread, "loop" at the test of cnode_thread's loop,
\* "session" in serve_session with its socket open, "wait" in the backoff wait,
\* "done" returned, not joined
NoTasks == [t \in 1..MaxTasks |-> "none"]

TasksStopped == g_thread = 0 /\ task = NoTasks

\* "0.0.0.0", the initial value of g_advertise_ip
DefaultIp == <<48, 46, 48, 46, 48, 46, 48>>

\* reg: the tasks the call started, and the dials, request writes and response
\* reads of the task; sent the bytes that reached the registration server
NoReg == [tasks |-> 0, dials |-> 0, writes |-> 0, reads |-> 0, sent |-> <<>>,
          closes |-> 0]

RegStopped ==
    /\ g_reg_enable = 0 /\ g_reg_server_ip = "" /\ g_reg_server_port = 0
    /\ g_advertise_ip = DefaultIp /\ g_port = 50051
    /\ rpc = "none" /\ proto = <<>> /\ rsock = "none" /\ rrd = RdIdle
    /\ reg = NoReg

(***************************************************************************)
(* Framing harness                                                         *)
(***************************************************************************)
InitFrame ==
    /\ unit = "frame" /\ calls = NoCalls /\ main = "idle"
    /\ \E variant \in {"V", "F"} : \E max_len \in 0..MaxLen :
          frd = RdStart(variant, max_len)
    /\ HealthStopped
    /\ CnodeStopped
    /\ TasksStopped
    /\ CodecStopped
    /\ RegStopped

FrameRecvPrefix ==
    /\ unit = "frame" /\ frd.phase = "hdr" /\ frd.variant = "V"
    /\ \E b \in PrefixBytes : frd' = RdVarintByte(frd, b)
    /\ UNCHANGED <<unit, kvars, rvars, tvars, calls, main, hvars, cvars>>

FrameRecvHeader ==
    /\ unit = "frame" /\ frd.phase = "hdr" /\ frd.variant = "F"
    /\ \E n \in 1..(HdrLen - frd.hdr) : \E bs \in [1..n -> HdrBytes] :
          frd' = RdHeaderBytes(frd, bs)
    /\ UNCHANGED <<unit, kvars, rvars, tvars, calls, main, hvars, cvars>>

FrameRecvBody ==
    /\ unit = "frame" /\ frd.phase = "body"
    /\ \E n \in BodyCounts(frd) : \E bs \in [1..n -> PayloadBytes] :
          frd' = RdBodyBytes(frd, bs)
    /\ UNCHANGED <<unit, kvars, rvars, tvars, calls, main, hvars, cvars>>

FrameRecvFail ==
    /\ unit = "frame" /\ frd.phase \in {"hdr", "body"}
    /\ frd' = RdRecvFail(frd)
    /\ UNCHANGED <<unit, kvars, rvars, tvars, calls, main, hvars, cvars>>

NextFrame == FrameRecvPrefix \/ FrameRecvHeader \/ FrameRecvBody \/ FrameRecvFail

SpecFrame == InitFrame /\ [][NextFrame]_vars

(***************************************************************************)
(* Health server: amf_health_open, amf_health_close                        *)
(* The caller opens only when the server is Stopped.                       *)
(***************************************************************************)
InitHealth ==
    /\ unit = "health" /\ calls = NoCalls /\ main = "idle"
    /\ frd = RdIdle
    /\ HealthStopped
    /\ CnodeStopped
    /\ TasksStopped
    /\ CodecStopped
    /\ RegStopped

\* what one call of amf_health_open may meet: AMF_GRPC_ENABLE set and not "1",
\* socket(), bind(), listen() or pthread_create() failing, or none of these
OpenOutcomes == {"disabled", "socket", "bind", "listen", "thread", "ok"}

\* a mutant of OpenResult: a failed setup leaves server_running set
OpenResultFlagLeft(o) ==
    CASE o = "disabled" ->
           [ret |-> "OGS_OK", fd |-> server_fd, lsock |-> lsock,
            running |-> server_running, thread |-> FALSE]
      [] o = "ok" ->
           [ret |-> "OGS_OK", fd |-> 3, lsock |-> "listening", running |-> 1,
            thread |-> TRUE]
      [] OTHER ->
           [ret |-> "OGS_ERROR", fd |-> NoFd, lsock |-> "none", running |-> 1,
            thread |-> FALSE]

\* a mutant of OpenResult: pthread_create failed and the socket is left as it is
OpenResultSocketLeft(o) ==
    CASE o = "disabled" ->
           [ret |-> "OGS_OK", fd |-> server_fd, lsock |-> lsock,
            running |-> server_running, thread |-> FALSE]
      [] o = "ok" ->
           [ret |-> "OGS_OK", fd |-> 3, lsock |-> "listening", running |-> 1,
            thread |-> TRUE]
      [] o = "thread" ->
           [ret |-> "OGS_ERROR", fd |-> 3, lsock |-> "listening", running |-> 0,
            thread |-> FALSE]
      [] OTHER ->
           [ret |-> "OGS_ERROR", fd |-> NoFd, lsock |-> "none",
            running |-> server_running, thread |-> FALSE]

\* what amf_health_open returns and leaves behind on each of its paths
OpenResult(o) ==
    CASE o = "disabled" ->
           [ret |-> "OGS_OK", fd |-> server_fd, lsock |-> lsock,
            running |-> server_running, thread |-> FALSE]
      [] o = "socket" ->
           [ret |-> "OGS_ERROR", fd |-> NoFd, lsock |-> lsock,
            running |-> server_running, thread |-> FALSE]
      [] o \in {"bind", "listen"} ->
           [ret |-> "OGS_ERROR", fd |-> NoFd, lsock |-> "none",
            running |-> server_running, thread |-> FALSE]
      [] o = "thread" ->
           [ret |-> "OGS_ERROR", fd |-> NoFd, lsock |-> "none", running |-> 0,
            thread |-> FALSE]
      [] OTHER ->
           [ret |-> "OGS_OK", fd |-> 3, lsock |-> "listening", running |-> 1,
            thread |-> TRUE]

\* the call as the history records it: by what it returned and whether a thread
\* was spawned
OpenLog(r) ==
    IF r.ret = "OGS_ERROR" THEN "open_error"
    ELSE IF r.thread THEN "open_ok" ELSE "open_disabled"

AmfHealthOpenWith(o) ==
    /\ unit = "health" /\ main = "idle"
    /\ server_fd < 0 /\ hpc = "none"
    /\ LET r == OpenResult(o)
       IN  /\ server_fd' = r.fd
           /\ lsock' = r.lsock
           /\ server_running' = r.running
           /\ hpc' = IF r.thread THEN "loop" ELSE hpc
           /\ calls' = IF OpenLog(r) = "open_ok" THEN <<"none", "open_ok">>
                       ELSE LogCall(OpenLog(r))
    /\ UNCHANGED <<cvars, unit, kvars, rvars, tvars, main, frd, herrno, hrd, conn>>

AmfHealthOpen == \E o \in OpenOutcomes : AmfHealthOpenWith(o)

\* a mutant of HealthCloseIsNoop: the guard is missing
HealthCloseNoGuard == FALSE

\* if (server_fd < 0) return;
HealthCloseIsNoop == server_fd < 0

\* amf_health_close up to server_running = 0
AmfHealthClose ==
    /\ unit = "health" /\ main = "idle"
    /\ IF HealthCloseIsNoop
       THEN /\ calls' = LogCall("close_noop")
            /\ UNCHANGED <<main, server_running>>
       ELSE /\ calls' = LogCall("close")
            /\ server_running' = 0
            /\ main' = "hc_close"
    /\ UNCHANGED <<cvars, unit, kvars, rvars, tvars, frd, server_fd, lsock, hpc, herrno, hrd, conn>>

\* close(server_fd); server_fd = -1.  An accept already blocked on the socket
\* either returns with an error or keeps the open file description and stays
\* blocked (close(2): the behaviour varies across systems; Linux does the latter)
HealthCloseSocket ==
    /\ unit = "health" /\ main = "hc_close"
    /\ server_fd' = NoFd
    /\ main' = "hc_join"
    /\ \/ /\ hpc = "blocked" /\ lsock = "listening"
          /\ lsock' = "orphan"
          /\ UNCHANGED <<hpc, herrno>>
       \/ /\ hpc = "blocked" /\ lsock = "listening"
          /\ lsock' = "none"
          /\ hpc' = "err" /\ herrno' = "EBADF"
       \/ /\ ~(hpc = "blocked" /\ lsock = "listening")
          /\ lsock' = "none"
          /\ UNCHANGED <<hpc, herrno>>
    /\ UNCHANGED <<cvars, unit, kvars, rvars, tvars, calls, frd, server_running, hrd, conn>>

\* a mutant of JoinReturns: the caller does not wait for the thread
JoinReturnsAtOnce(pc) == TRUE

\* pthread_join returns when the thread it names has terminated
JoinReturns(pc) == pc = "done"

\* pthread_join(server_thread, NULL)
HealthJoin ==
    /\ unit = "health" /\ main = "hc_join"
    /\ JoinReturns(hpc)
    /\ hpc' = "none"
    /\ main' = "idle"
    /\ UNCHANGED <<cvars, unit, kvars, rvars, tvars, calls, frd, server_fd, server_running, lsock, herrno,
                   hrd, conn>>

(***************************************************************************)
(* Health server: health_server_loop                                       *)
(***************************************************************************)
\* while (server_running)
HsLoop ==
    /\ unit = "health" /\ hpc = "loop"
    /\ hpc' = IF server_running = 1 THEN "accept" ELSE "done"
    /\ UNCHANGED <<cvars, unit, kvars, rvars, tvars, calls, main, frd, server_fd, server_running, lsock,
                   herrno, hrd, conn>>

\* accept(server_fd, ...) is entered: it blocks on the listening socket, or
\* returns EBADF at once when server_fd is no open descriptor
HsAcceptCall ==
    /\ unit = "health" /\ hpc = "accept"
    /\ IF server_fd >= 0 /\ lsock = "listening"
       THEN hpc' = "blocked" /\ UNCHANGED herrno
       ELSE hpc' = "err" /\ herrno' = "EBADF"
    /\ UNCHANGED <<cvars, unit, kvars, rvars, tvars, calls, main, frd, server_fd, server_running, lsock,
                   hrd, conn>>

\* a client connects: accept returns cfd, handle_connection sets the 500 ms
\* read deadline and calls read_delimited(cfd, req_buf, sizeof(req_buf))
HsAcceptConn ==
    /\ unit = "health" /\ hpc = "blocked"
    /\ hpc' = "read"
    /\ lsock' = IF lsock = "orphan" THEN "none" ELSE lsock
    /\ conn' = [NoConn EXCEPT !.state = "open"]
    /\ hrd' = RdStart("V", HealthReqBuf)
    /\ UNCHANGED <<cvars, unit, kvars, rvars, tvars, calls, main, frd, server_fd, server_running, herrno>>

\* accept fails on the open socket
AcceptErrnos == {"EINTR", "EAGAIN", "EOTHER"}

HsAcceptFail ==
    /\ unit = "health" /\ hpc = "blocked"
    /\ hpc' = "err"
    /\ \E e \in AcceptErrnos : herrno' = e
    /\ lsock' = IF lsock = "orphan" THEN "none" ELSE lsock
    /\ UNCHANGED <<cvars, unit, kvars, rvars, tvars, calls, main, frd, server_fd, server_running, hrd, conn>>

\* a mutant of AcceptErrorEndsLoop: every error that is not transient ends the loop
AcceptErrorEndsLoopAny(e) == e \notin {"EINTR", "EAGAIN"}

\* if (errno == EBADF) break;
AcceptErrorEndsLoop(e) == e = "EBADF"

\* if (cfd < 0) { ... }
HsAcceptError ==
    /\ unit = "health" /\ hpc = "err"
    /\ hpc' = IF server_running = 0 THEN "done"
              ELSE IF herrno \in {"EINTR", "EAGAIN"} THEN "loop"
              ELSE IF AcceptErrorEndsLoop(herrno) THEN "done"
              ELSE "loop"
    /\ UNCHANGED <<cvars, unit, kvars, rvars, tvars, calls, main, frd, server_fd, server_running, lsock,
                   herrno, hrd, conn>>

(***************************************************************************)
(* Health server: handle_connection                                        *)
(***************************************************************************)
HcRecvPrefix ==
    /\ unit = "health" /\ hpc = "read" /\ hrd.phase = "hdr"
    /\ \E b \in HealthPrefixBytes : hrd' = RdVarintByte(hrd, b)
    /\ UNCHANGED <<cvars, unit, kvars, rvars, tvars, calls, main, frd, server_fd, server_running, lsock,
                   hpc, herrno, conn>>

HcRecvBody ==
    /\ unit = "health" /\ hpc = "read" /\ hrd.phase = "body"
    /\ \E n \in BodyCounts(hrd) : \E bs \in [1..n -> PayloadBytes] :
          hrd' = RdBodyBytes(hrd, bs)
    /\ UNCHANGED <<cvars, unit, kvars, rvars, tvars, calls, main, frd, server_fd, server_running, lsock,
                   hpc, herrno, conn>>

\* the 500 ms deadline fires, the client closed, or the connection failed
HcRecvFail ==
    /\ unit = "health" /\ hpc = "read" /\ hrd.phase \in {"hdr", "body"}
    /\ hrd' = RdRecvFail(hrd)
    /\ UNCHANGED <<cvars, unit, kvars, rvars, tvars, calls, main, frd, server_fd, server_running, lsock,
                   hpc, herrno, conn>>

\* a mutant of HandleReply: a failed read is answered NOT_SERVING
HandleReplyByRead(ret) ==
    IF ret < 0 THEN HEALTH_RESP_NOT_SERVING ELSE HEALTH_RESP_SERVING

\* the payload handle_connection writes after read_delimited returned ret
HandleReply(ret) == HEALTH_RESP_SERVING

\* read_delimited returned; the deadline is cleared;
\* write_delimited(cfd, HEALTH_RESP_SERVING, HEALTH_RESP_LEN)
HcWrite ==
    /\ unit = "health" /\ hpc = "read" /\ hrd.phase = "done"
    /\ \E k \in WriteCounts(HEALTH_RESP_LEN) :
          LET w == WriteDelimited(HandleReply(hrd.ret), HEALTH_RESP_LEN, k[1], k[2])
          IN  conn' = [conn EXCEPT !.rret = hrd.ret,
                                   !.wire = conn.wire \o w.sent,
                                   !.writes = conn.writes + 1,
                                   !.wret = w.ret]
    /\ hrd' = RdIdle
    /\ hpc' = "close"
    /\ UNCHANGED <<cvars, unit, kvars, rvars, tvars, calls, main, frd, server_fd, server_running, lsock,
                   herrno>>

\* close(cfd); handle_connection returns to the loop
HcClose ==
    /\ unit = "health" /\ hpc = "close"
    /\ conn' = [conn EXCEPT !.state = "closed"]
    /\ hpc' = "loop"
    /\ UNCHANGED <<cvars, unit, kvars, rvars, tvars, calls, main, frd, server_fd, server_running, lsock,
                   herrno, hrd>>

HealthThread ==
    \/ HsLoop \/ HsAcceptCall \/ HsAcceptError
    \/ HcRecvPrefix \/ HcRecvBody \/ HcRecvFail \/ HcWrite \/ HcClose

NextHealth ==
    \/ AmfHealthOpen \/ AmfHealthClose \/ HealthCloseSocket \/ HealthJoin
    \/ HsAcceptConn \/ HsAcceptFail
    \/ HealthThread

SpecHealth == InitHealth /\ [][NextHealth]_vars

\* the scheduler runs the accept-loop thread and the closing thread; recv has a
\* deadline, so one of its outcomes happens.  Nothing obliges a client to connect
\* or accept to fail.
SpecHealthFair ==
    /\ SpecHealth
    /\ WF_vars(HealthThread)
    /\ WF_vars(HealthCloseSocket)
    /\ WF_vars(HealthJoin)

(***************************************************************************)
(* amf_cnode.c: write_framed, with send #1 taking k1 and send #2 taking k2 *)
(* bytes                                                                   *)
(***************************************************************************)
\* a mutant of LE32: the length is written in network byte order
LE32BigEndian(n) == <<(n \div 16777216) % 256, (n \div 65536) % 256,
                      (n \div 256) % 256, n % 256>>

\* uint32_t payload_len in memory, little endian
LE32(n) == <<n % 256, (n \div 256) % 256, (n \div 65536) % 256,
             (n \div 16777216) % 256>>

WriteFramed(data, data_len, k1, k2) ==
    IF k1 # HdrLen THEN [ret |-> -1, sent |-> SubSeq(LE32(data_len), 1, k1)]
    ELSE IF data_len > 0 /\ k2 # data_len
         THEN [ret |-> -1, sent |-> LE32(data_len) \o SubSeq(data, 1, k2)]
    ELSE [ret |-> 0, sent |-> LE32(data_len) \o SubSeq(data, 1, data_len)]

\* the byte counts the two sends of write_framed may take
FramedCounts(data_len) ==
    {k \in (0..HdrLen) \X (0..data_len) : k[1] < HdrLen => k[2] = 0}

(***************************************************************************)
(* Cnode client: amf_cnode_start, amf_cnode_stop                           *)
(* The caller starts the client only when it is not running.               *)
(***************************************************************************)
InitCnode ==
    /\ unit = "cnode" /\ calls = NoCalls /\ main = "idle"
    /\ frd = RdIdle
    /\ HealthStopped
    /\ CnodeStopped
    /\ TasksStopped
    /\ CodecStopped
    /\ RegStopped

\* what one call of amf_cnode_start may meet: AMF_CNODE_ENABLE set and not "1",
\* AMF_CNODE_SERVER_IP unset or empty, pthread_create() failing, or none of these
StartOutcomes == {"disabled", "noip", "thread", "ok"}

\* a mutant of StartResult: the server address is not tested
StartResultNoIpTest(o) ==
    CASE o = "disabled" ->
           [ret |-> "OGS_OK", running |-> g_running, thread |-> FALSE, setip |-> FALSE]
      [] o = "thread" ->
           [ret |-> "OGS_ERROR", running |-> 0, thread |-> FALSE, setip |-> TRUE]
      [] OTHER ->
           [ret |-> "OGS_OK", running |-> 1, thread |-> TRUE, setip |-> TRUE]

\* what amf_cnode_start returns and leaves behind on each of its paths; setip
\* when g_server_ip was copied from the environment
StartResult(o) ==
    CASE o \in {"disabled", "noip"} ->
           [ret |-> "OGS_OK", running |-> g_running, thread |-> FALSE, setip |-> FALSE]
      [] o = "thread" ->
           [ret |-> "OGS_ERROR", running |-> 0, thread |-> FALSE, setip |-> TRUE]
      [] OTHER ->
           [ret |-> "OGS_OK", running |-> 1, thread |-> TRUE, setip |-> TRUE]

\* the call as the history records it
StartLog(o, r) ==
    IF r.ret = "OGS_ERROR" THEN "start_error"
    ELSE IF r.thread THEN "start_ok"
    ELSE IF o = "disabled" THEN "start_disabled" ELSE "start_noip"

AmfCnodeStartWith(o) ==
    /\ unit = "cnode" /\ main = "idle"
    /\ g_running = 0 /\ cpc = "none"
    /\ LET r == StartResult(o)
       IN  /\ IF r.setip THEN \E ip \in {"valid", "invalid"} : g_server_ip' = ip
                         ELSE g_server_ip' = g_server_ip
           /\ g_running' = r.running
           /\ cpc' = IF r.thread THEN "ct_loop" ELSE cpc
           /\ backoff' = IF r.thread THEN 1 ELSE backoff
           /\ calls' = IF r.thread THEN <<"none", "start_ok">>
                       ELSE LogCall(StartLog(o, r))
    /\ UNCHANGED <<hvars, unit, kvars, rvars, tvars, main, frd, slept, fails, crd, cconn>>

AmfCnodeStart == \E o \in StartOutcomes : AmfCnodeStartWith(o)

\* a mutant of CnodeStopIsNoop: the guard is missing
CnodeStopNoGuard == FALSE

\* if (!g_running) return;
CnodeStopIsNoop == g_running = 0

\* amf_cnode_stop up to g_running = 0
AmfCnodeStop ==
    /\ unit = "cnode" /\ main = "idle"
    /\ IF CnodeStopIsNoop
       THEN /\ calls' = LogCall("stop_noop")
            /\ UNCHANGED <<main, g_running>>
       ELSE /\ calls' = LogCall("stop")
            /\ g_running' = 0
            /\ main' = "cn_join"
    /\ UNCHANGED <<hvars, unit, kvars, rvars, tvars, frd, g_server_ip, cpc, backoff, slept, fails,
                   crd, cconn>>

\* pthread_join(g_thread, NULL); the thread's locals are gone
CnodeJoin ==
    /\ unit = "cnode" /\ main = "cn_join"
    /\ JoinReturns(cpc)
    /\ cpc' = "none"
    /\ backoff' = 1 /\ slept' = 0 /\ fails' = 0
    /\ main' = "idle"
    /\ UNCHANGED <<hvars, unit, kvars, rvars, tvars, calls, frd, g_running, g_server_ip, crd, cconn>>

(***************************************************************************)
(* Cnode client: cnode_thread                                              *)
(***************************************************************************)
\* serve_session returned -1: rc != 0, slept = 0
SessionFailed ==
    /\ cpc' = "ct_wait"
    /\ slept' = 0
    /\ fails' = Min(fails + 1, MaxFails)

\* while (g_running) { int rc = serve_session(); ...
CtLoop ==
    /\ unit = "cnode" /\ cpc = "ct_loop"
    /\ cpc' = IF g_running = 1 THEN "ss_dial" ELSE "done"
    /\ UNCHANGED <<hvars, unit, kvars, rvars, tvars, calls, main, frd, g_running, g_server_ip,
                   backoff, slept, fails, crd, cconn>>

\* a mutant of WaitContinues: the running flag is not rechecked
WaitContinuesBlind(s, b, running) == s < b

\* while (slept < backoff && g_running)
WaitContinues(s, b, running) == s < b /\ running = 1

CtWait ==
    /\ unit = "cnode" /\ cpc = "ct_wait"
    /\ cpc' = IF WaitContinues(slept, backoff, g_running) THEN "ct_sleep"
              ELSE "ct_double"
    /\ UNCHANGED <<hvars, unit, kvars, rvars, tvars, calls, main, frd, g_running, g_server_ip,
                   backoff, slept, fails, crd, cconn>>

\* sleep(1); slept++;
CtSleep ==
    /\ unit = "cnode" /\ cpc = "ct_sleep"
    /\ slept' = slept + 1
    /\ cpc' = "ct_wait"
    /\ UNCHANGED <<hvars, unit, kvars, rvars, tvars, calls, main, frd, g_running, g_server_ip,
                   backoff, fails, crd, cconn>>

\* a mutant of BackoffNext: the cap is applied before the doubling
BackoffNextLateCap(b) == IF b > BackoffCap THEN 2 * BackoffCap ELSE 2 * b

\* backoff *= 2; if (backoff > 30) backoff = 30;
BackoffNext(b) == IF 2 * b > BackoffCap THEN BackoffCap ELSE 2 * b

CtDouble ==
    /\ unit = "cnode" /\ cpc = "ct_double"
    /\ backoff' = BackoffNext(backoff)
    /\ cpc' = "ct_loop"
    /\ UNCHANGED <<hvars, unit, kvars, rvars, tvars, calls, main, frd, g_running, g_server_ip,
                   slept, fails, crd, cconn>>

(***************************************************************************)
(* Cnode client: serve_session                                             *)
(***************************************************************************)
\* inet_pton, socket, connect (5 s timeout).  A failure returns -1.
SsDial ==
    /\ unit = "cnode" /\ cpc = "ss_dial"
    /\ \/ /\ g_server_ip = "valid"
          /\ cconn' = [NoCconn EXCEPT !.state = "open", !.peer = "active"]
          /\ cpc' = "ss_ident"
          /\ UNCHANGED <<slept, fails>>
       \/ /\ g_server_ip = "valid"
          /\ cconn' = [NoCconn EXCEPT !.state = "closed"]
          /\ SessionFailed
       \/ /\ cconn' = NoCconn
          /\ SessionFailed
    /\ UNCHANGED <<hvars, unit, kvars, rvars, tvars, calls, main, frd, g_running, g_server_ip,
                   backoff, crd>>

\* a mutant of SessionIdentity: the session opens with the health response
SessionIdentityServing == HEALTH_RESP_SERVING

\* the payload serve_session writes first on a connection
SessionIdentity == NODETYPE_AMF

\* write_framed(sfd, NODETYPE_AMF, sizeof NODETYPE_AMF); on failure close, return -1
SsIdentify ==
    /\ unit = "cnode" /\ cpc = "ss_ident"
    /\ \E k \in FramedCounts(Len(SessionIdentity)) :
          LET w == WriteFramed(SessionIdentity, Len(SessionIdentity), k[1], k[2])
          IN  IF w.ret < 0
              THEN /\ cconn' = [NoCconn EXCEPT !.idsent = cconn.idsent \o w.sent,
                                               !.wret = w.ret,
                                               !.state = "closed"]
                   /\ SessionFailed
              ELSE /\ cconn' = [cconn EXCEPT !.idsent = cconn.idsent \o w.sent,
                                             !.wret = w.ret]
                   /\ cpc' = "ss_loop"
                   /\ UNCHANGED <<slept, fails>>
    /\ UNCHANGED <<hvars, unit, kvars, rvars, tvars, calls, main, frd, g_running, g_server_ip,
                   backoff, crd>>

\* while (g_running); the last exchange is over
SsLoop ==
    /\ unit = "cnode" /\ cpc = "ss_loop"
    /\ cpc' = IF g_running = 1 THEN "ss_poll" ELSE "ss_close"
    /\ cconn' = [cconn EXCEPT !.x = <<>>, !.rep = <<>>]
    /\ UNCHANGED <<hvars, unit, kvars, rvars, tvars, calls, main, frd, g_running, g_server_ip,
                   backoff, slept, fails, crd>>

\* what poll(&pfd, 1, 5000) may report for the state of the peer
PollOutcomes ==
    {"EINTR", "error", "timeout"}
      \cup (IF cconn.peer = "active" /\ cconn.reqs < MaxReq THEN {"in"} ELSE {})
      \cup (IF cconn.peer = "closed" THEN {"in", "hup"} ELSE {})

\* a mutant of AfterPoll: a poll timeout is answered like a request
AfterPollTimeoutReplies(o) ==
    CASE o = "EINTR" -> "ss_loop"
      [] o = "timeout" -> "ss_reply"
      [] o \in {"error", "hup"} -> "ss_close"
      [] OTHER -> "ss_read"

\* where serve_session goes after poll: continue on EINTR and on a timeout,
\* break on an error and on POLLERR/POLLHUP/POLLNVAL, read_framed on POLLIN
AfterPoll(o) ==
    CASE o \in {"EINTR", "timeout"} -> "ss_loop"
      [] o \in {"error", "hup"} -> "ss_close"
      [] OTHER -> "ss_read"

\* rc = poll(...) and the tests on rc and revents; on POLLIN read_framed is called
SsPoll ==
    /\ unit = "cnode" /\ cpc = "ss_poll"
    /\ \E o \in PollOutcomes :
          /\ cpc' = AfterPoll(o)
          /\ IF AfterPoll(o) = "ss_read"
             THEN crd' = RdStart("F", CnodeReqBuf) /\ UNCHANGED cconn
             ELSE UNCHANGED <<crd, cconn>>
    /\ UNCHANGED <<hvars, unit, kvars, rvars, tvars, calls, main, frd, g_running, g_server_ip,
                   backoff, slept, fails>>

\* recv in read_framed has no deadline: it returns when the peer sent or closed
SsRecvHeader ==
    /\ unit = "cnode" /\ cpc = "ss_read" /\ crd.phase = "hdr"
    /\ cconn.peer = "active"
    /\ \E n \in 1..(HdrLen - crd.hdr) : \E bs \in [1..n -> CnodeHdrBytes] :
          crd' = RdHeaderBytes(crd, bs)
    /\ UNCHANGED <<hvars, unit, kvars, rvars, tvars, calls, main, frd, g_running, g_server_ip, cpc,
                   backoff, slept, fails, cconn>>

SsRecvBody ==
    /\ unit = "cnode" /\ cpc = "ss_read" /\ crd.phase = "body"
    /\ cconn.peer = "active"
    /\ \E n \in BodyCounts(crd) : \E bs \in [1..n -> PayloadBytes] :
          crd' = RdBodyBytes(crd, bs)
    /\ UNCHANGED <<hvars, unit, kvars, rvars, tvars, calls, main, frd, g_running, g_server_ip, cpc,
                   backoff, slept, fails, cconn>>

SsRecvFail ==
    /\ unit = "cnode" /\ cpc = "ss_read" /\ crd.phase \in {"hdr", "body"}
    /\ cconn.peer = "closed"
    /\ crd' = RdRecvFail(crd)
    /\ UNCHANGED <<hvars, unit, kvars, rvars, tvars, calls, main, frd, g_running, g_server_ip, cpc,
                   backoff, slept, fails, cconn>>

\* n = read_framed(...); if (n < 0) break;
SsReadReturn ==
    /\ unit = "cnode" /\ cpc = "ss_read" /\ crd.phase = "done"
    /\ IF crd.ret < 0
       THEN cpc' = "ss_close" /\ UNCHANGED cconn
       ELSE /\ cpc' = "ss_reply"
            /\ cconn' = [cconn EXCEPT !.reqs = cconn.reqs + 1, !.x = crd.buf]
    /\ crd' = RdIdle
    /\ UNCHANGED <<hvars, unit, kvars, rvars, tvars, calls, main, frd, g_running, g_server_ip,
                   backoff, slept, fails>>

\* a mutant of SessionReply: an empty request gets an empty reply
SessionReplyEcho(x) == IF x = <<>> THEN <<>> ELSE HEALTH_RESP_SERVING

\* the payload serve_session writes after reading the request payload x
SessionReply(x) == HEALTH_RESP_SERVING

\* write_framed(sfd, HEALTH_RESP_SERVING, sizeof HEALTH_RESP_SERVING); on failure break
SsReply ==
    /\ unit = "cnode" /\ cpc = "ss_reply"
    /\ \E k \in FramedCounts(Len(SessionReply(cconn.x))) :
          LET data == SessionReply(cconn.x)
              w == WriteFramed(data, Len(data), k[1], k[2])
          IN  /\ cconn' = [cconn EXCEPT
                             !.attempts = cconn.attempts + 1,
                             !.replies = IF w.ret = 0 THEN cconn.replies + 1
                                         ELSE cconn.replies,
                             !.rep = w.sent, !.wret = w.ret]
              /\ cpc' = IF w.ret < 0 THEN "ss_close" ELSE "ss_loop"
    /\ UNCHANGED <<hvars, unit, kvars, rvars, tvars, calls, main, frd, g_running, g_server_ip,
                   backoff, slept, fails, crd>>

\* a mutant of SessionRet: the end of the loop is always a clean stop
SessionRetClean(running) == 0

\* return g_running ? -1 : 0;
SessionRet(running) == IF running = 1 THEN -1 ELSE 0

\* a mutant of BackoffAfterSession: a session that answered starts over at 1 s
BackoffAfterSessionReset(b, served) == IF served > 0 THEN 1 ELSE b

\* backoff when serve_session returned after served replies: cnode_thread
\* assigns backoff only where it doubles it
BackoffAfterSession(b, served) == b

\* close(sfd); return g_running ? -1 : 0;  and in cnode_thread: if (rc == 0) break;
\* The connection's history ends with the socket.
SsClose ==
    /\ unit = "cnode" /\ cpc = "ss_close"
    /\ cconn' = [NoCconn EXCEPT !.state = "closed"]
    /\ backoff' = BackoffAfterSession(backoff, cconn.replies)
    /\ IF SessionRet(g_running) # 0
       THEN SessionFailed
       ELSE cpc' = "done" /\ UNCHANGED <<slept, fails>>
    /\ UNCHANGED <<hvars, unit, kvars, rvars, tvars, calls, main, frd, g_running, g_server_ip,
                   crd>>

(***************************************************************************)
(* The cnode server                                                        *)
(***************************************************************************)
\* the server keeps the connection and sends nothing more.  Not between a poll
\* that reported data and the first recv: those bytes have arrived.
PeerStall ==
    /\ unit = "cnode" /\ cconn.state = "open" /\ cconn.peer = "active"
    /\ ~(cpc = "ss_read" /\ crd.phase = "hdr" /\ crd.hdr = 0)
    /\ cconn' = [cconn EXCEPT !.peer = "silent"]
    /\ UNCHANGED <<hvars, unit, kvars, rvars, tvars, calls, main, frd, g_running, g_server_ip, cpc,
                   backoff, slept, fails, crd>>

\* the server closes or resets the connection
PeerClose ==
    /\ unit = "cnode" /\ cconn.state = "open" /\ cconn.peer \in {"active", "silent"}
    /\ cconn' = [cconn EXCEPT !.peer = "closed"]
    /\ UNCHANGED <<hvars, unit, kvars, rvars, tvars, calls, main, frd, g_running, g_server_ip, cpc,
                   backoff, slept, fails, crd>>

CnodeThread ==
    \/ CtLoop \/ CtWait \/ CtSleep \/ CtDouble
    \/ SsDial \/ SsIdentify \/ SsLoop \/ SsPoll
    \/ SsRecvHeader \/ SsRecvBody \/ SsRecvFail \/ SsReadReturn
    \/ SsReply \/ SsClose

NextCnode ==
    \/ AmfCnodeStart \/ AmfCnodeStop \/ CnodeJoin
    \/ PeerStall \/ PeerClose
    \/ CnodeThread

SpecCnode == InitCnode /\ [][NextCnode]_vars

\* the scheduler runs the cnode thread and the stopping thread; connect, send,
\* poll and sleep are bounded in time.  recv in read_framed is not: it is
\* enabled only while the server sends or has closed.  Nothing obliges the
\* server to go on sending or to close.
SpecCnodeFair ==
    /\ SpecCnode
    /\ WF_vars(CnodeThread)
    /\ WF_vars(CnodeJoin)

(***************************************************************************)
(* Registration client: do_registration, amf_health_send_registration      *)
(* The configuration is what amf_health_open read from the environment.    *)
(* The caller triggers a registration when no earlier task is still alive. *)
(***************************************************************************)
\* sizeof g_advertise_ip, sizeof proto, sizeof resp_buf
IpBufLen == 64
ProtoSize == 256
RegRespBuf == 128

\* g_advertise_ip after strncpy(..., sizeof - 1): "0.0.0.0", "10.0.0.1", and a
\* string that fills the buffer
AdvertiseIps ==
    {DefaultIp, <<49, 48, 46, 48, 46, 48, 46, 49>>, [k \in 1..(IpBufLen - 1) |-> 49]}

\* g_port after (uint16_t)atoi(env)
Ports == {0, 1, 127, 128, 50051, 65535}

\* varint prefix bytes the registration server answers with
RegPrefixBytes == {0, 2, 129}

InitReg ==
    /\ unit = "reg" /\ calls = NoCalls /\ main = "idle"
    /\ frd = RdIdle
    /\ HealthStopped
    /\ CnodeStopped
    /\ TasksStopped
    /\ CodecStopped
    /\ g_reg_enable \in {0, 1}
    /\ g_reg_server_ip \in {"", "valid", "invalid"}
    /\ g_reg_server_port \in {0, 9090}
    /\ g_advertise_ip \in AdvertiseIps
    /\ g_port \in Ports
    /\ rpc = "none" /\ proto = <<>> /\ rsock = "none" /\ rrd = RdIdle
    /\ reg = NoReg

\* a mutant of RegisterRequest: the length of the ip field is left out
RegisterRequestNoLen(ip, port) ==
    [ok |-> TRUE,
     proto |-> <<8, 13, 18>> \o ip \o <<24>> \o varint_encode(U64(port), VarintMax).buf]

\* the RegisterRequest do_registration builds: ok is FALSE after goto done
RegisterRequest(ip, port) ==
    LET p1 == <<8, 13, 18>>
        e1 == varint_encode(U64(Len(ip)), ProtoSize - Len(p1))
        p2 == p1 \o e1.buf \o ip \o <<24>>
        e2 == varint_encode(U64(port), ProtoSize - Len(p2))
    IN  IF e1.n < 0 THEN [ok |-> FALSE, proto |-> p1]
        ELSE IF e2.n < 0 THEN [ok |-> FALSE, proto |-> p2]
        ELSE [ok |-> TRUE, proto |-> p2 \o e2.buf]

\* a mutant of RegistrationIsNoop: only the enable flag is tested
RegistrationIsNoopEnableOnly == g_reg_enable = 0

\* if (!g_reg_enable) return; if (!g_reg_server_ip[0] || !g_reg_server_port) return;
RegistrationIsNoop ==
    g_reg_enable = 0 \/ g_reg_server_ip = "" \/ g_reg_server_port = 0

\* amf_health_send_registration: pthread_create succeeds or fails
AmfHealthSendRegistration ==
    /\ unit = "reg" /\ main = "idle" /\ rpc \in {"none", "done"}
    /\ IF RegistrationIsNoop
       THEN /\ calls' = LogCall("reg_noop")
            /\ UNCHANGED <<rpc, proto, rsock, rrd, reg>>
       ELSE \/ /\ calls' = LogCall("reg_started")
               /\ rpc' = "build"
               /\ reg' = [NoReg EXCEPT !.tasks = 1]
               /\ proto' = <<>> /\ rsock' = "none" /\ rrd' = RdIdle
            \/ /\ calls' = LogCall("reg_nothread")
               /\ rpc' = "none"
               /\ reg' = NoReg
               /\ proto' = <<>> /\ rsock' = "none" /\ rrd' = RdIdle
    /\ UNCHANGED <<unit, main, frd, hvars, cvars, kvars, tvars, g_reg_enable,
                   g_reg_server_ip, g_reg_server_port, g_advertise_ip, g_port>>

\* Build RegisterRequest proto
RegBuild ==
    /\ unit = "reg" /\ rpc = "build"
    /\ LET r == RegisterRequest(g_advertise_ip, g_port)
       IN  /\ proto' = r.proto
           /\ rpc' = IF r.ok THEN "dial" ELSE "done"
    /\ UNCHANGED <<unit, calls, main, frd, hvars, cvars, kvars, tvars, g_reg_enable,
                   g_reg_server_ip, g_reg_server_port, g_advertise_ip, g_port,
                   rsock, rrd, reg>>

\* a mutant of AfterConnectFail: the socket is not closed
AfterConnectFailLeak(s) == s

\* connect failed: close(sfd); goto done;
AfterConnectFail(s) == "closed"

\* inet_pton, socket, connect (5 s timeout)
RegDial ==
    /\ unit = "reg" /\ rpc = "dial"
    /\ \/ /\ g_reg_server_ip = "valid"
          /\ rsock' = "open"
          /\ reg' = [reg EXCEPT !.dials = reg.dials + 1]
          /\ rpc' = "write"
       \/ /\ g_reg_server_ip = "valid"
          /\ rsock' = AfterConnectFail("open")
          /\ reg' = [reg EXCEPT !.dials = reg.dials + 1, !.closes = reg.closes + 1]
          /\ rpc' = "done"
       \/ /\ rsock' = "none"
          /\ rpc' = "done"
          /\ UNCHANGED reg
    /\ UNCHANGED <<unit, calls, main, frd, hvars, cvars, kvars, tvars, g_reg_enable,
                   g_reg_server_ip, g_reg_server_port, g_advertise_ip, g_port,
                   proto, rrd>>

\* the byte counts the two sends take when a registration is written: all,
\* none, or all but the last payload byte
RegWriteCounts(data_len) ==
    {k \in WriteCounts(data_len) : k[2] \in {0, data_len - 1, data_len}}

\* write_delimited(sfd, proto, offset); on failure close(sfd), goto done; else
\* read_delimited(sfd, resp_buf, sizeof(resp_buf)) is called
RegWrite ==
    /\ unit = "reg" /\ rpc = "write"
    /\ \E k \in RegWriteCounts(Len(proto)) :
          LET w == WriteDelimited(proto, Len(proto), k[1], k[2])
          IN  IF w.ret < 0
              THEN /\ reg' = [reg EXCEPT !.writes = reg.writes + 1,
                                         !.sent = reg.sent \o w.sent,
                                         !.closes = reg.closes + 1]
                   /\ rsock' = "closed"
                   /\ rpc' = "done"
                   /\ UNCHANGED rrd
              ELSE /\ reg' = [reg EXCEPT !.writes = reg.writes + 1,
                                         !.sent = reg.sent \o w.sent,
                                         !.reads = reg.reads + 1]
                   /\ rrd' = RdStart("V", RegRespBuf)
                   /\ rpc' = "read"
                   /\ UNCHANGED rsock
    /\ UNCHANGED <<unit, calls, main, frd, hvars, cvars, kvars, tvars, g_reg_enable,
                   g_reg_server_ip, g_reg_server_port, g_advertise_ip, g_port,
                   proto>>

RegRecvPrefix ==
    /\ unit = "reg" /\ rpc = "read" /\ rrd.phase = "hdr"
    /\ \E b \in RegPrefixBytes : rrd' = RdVarintByte(rrd, b)
    /\ UNCHANGED <<unit, calls, main, frd, hvars, cvars, kvars, tvars, g_reg_enable,
                   g_reg_server_ip, g_reg_server_port, g_advertise_ip, g_port,
                   rpc, proto, rsock, reg>>

RegRecvBody ==
    /\ unit = "reg" /\ rpc = "read" /\ rrd.phase = "body"
    /\ \E n \in BodyCounts(rrd) : \E bs \in [1..n -> PayloadBytes] :
          rrd' = RdBodyBytes(rrd, bs)
    /\ UNCHANGED <<unit, calls, main, frd, hvars, cvars, kvars, tvars, g_reg_enable,
                   g_reg_server_ip, g_reg_server_port, g_advertise_ip, g_port,
                   rpc, proto, rsock, reg>>

\* the 5 s deadline fires, the server closed, or the connection failed
RegRecvFail ==
    /\ unit = "reg" /\ rpc = "read" /\ rrd.phase \in {"hdr", "body"}
    /\ rrd' = RdRecvFail(rrd)
    /\ UNCHANGED <<unit, calls, main, frd, hvars, cvars, kvars, tvars, g_reg_enable,
                   g_reg_server_ip, g_reg_server_port, g_advertise_ip, g_port,
                   rpc, proto, rsock, reg>>

\* read_delimited returned: the response is logged
RegReadReturn ==
    /\ unit = "reg" /\ rpc = "read" /\ rrd.phase = "done"
    /\ rpc' = "close"
    /\ UNCHANGED <<unit, calls, main, frd, hvars, cvars, kvars, tvars, g_reg_enable,
                   g_reg_server_ip, g_reg_server_port, g_advertise_ip, g_port,
                   proto, rsock, rrd, reg>>

\* close(sfd); done: return NULL;
RegClose ==
    /\ unit = "reg" /\ rpc = "close"
    /\ rsock' = "closed"
    /\ reg' = [reg EXCEPT !.closes = reg.closes + 1]
    /\ rrd' = RdIdle
    /\ rpc' = "done"
    /\ UNCHANGED <<unit, calls, main, frd, hvars, cvars, kvars, tvars, g_reg_enable,
                   g_reg_server_ip, g_reg_server_port, g_advertise_ip, g_port,
                   proto>>

RegTask ==
    \/ RegBuild \/ RegDial \/ RegWrite
    \/ RegRecvPrefix \/ RegRecvBody \/ RegRecvFail \/ RegReadReturn \/ RegClose

NextReg == AmfHealthSendRegistration \/ RegTask

SpecReg == InitReg /\ [][NextReg]_vars

\* the scheduler runs the task; connect, send and recv have 5 s deadlines
SpecRegFair == SpecReg /\ WF_vars(RegTask)

(***************************************************************************)
(* Codec harness: varint_encode followed by the prefix decoder of          *)
(* read_delimited, and write_delimited / write_framed followed by          *)
(* read_delimited / read_framed on the bytes written, received in pieces   *)
(***************************************************************************)
\* values of one 21-bit limb
LimbValues == {0, 1, 127, 128, 2097151}

\* buffer sizes given to varint_encode
BufSizes == {0, 1, 3, 9, 10}

\* the payloads written
Payloads ==
    UNION {[1..n -> PayloadBytes] : n \in 0..MaxLen}
      \cup {[k \in 1..LongLen |-> k % 251]}

InitCodec ==
    /\ unit = "codec" /\ calls = NoCalls /\ main = "idle"
    /\ frd = RdIdle
    /\ wire = <<>>
    /\ \/ \E l0 \in LimbValues, l1 \in LimbValues, l2 \in LimbValues, l3 \in {0, 1},
             sz \in BufSizes :
             job = [NoJob EXCEPT !.kind = "varint", !.phase = "new",
                                 !.v = <<l0, l1, l2, l3>>, !.bufsz = sz]
       \/ \E variant \in {"V", "F"}, payload \in Payloads :
             job = [NoJob EXCEPT !.kind = "frame", !.phase = "new",
                                 !.variant = variant, !.payload = payload]
    /\ HealthStopped
    /\ CnodeStopped
    /\ TasksStopped
    /\ RegStopped

\* varint_encode(v, buf, bufsz); the bytes go to the prefix decoder
CodecEncode ==
    /\ unit = "codec" /\ job.kind = "varint" /\ job.phase = "new"
    /\ LET enc == varint_encode(job.v, job.bufsz)
       IN  /\ job' = [job EXCEPT !.n = enc.n, !.buf = enc.buf,
                                 !.phase = IF enc.n < 0 THEN "done" ELSE "sent"]
           /\ wire' = IF enc.n < 0 THEN <<>> ELSE enc.buf
           /\ frd' = IF enc.n < 0 THEN RdIdle ELSE RdStart("V", 0)
    /\ UNCHANGED <<unit, calls, main, hvars, cvars, rvars, tvars>>

\* write_delimited / write_framed with every send complete; the reader is
\* called with max_len the length of the payload, or one more
CodecWrite ==
    /\ unit = "codec" /\ job.kind = "frame" /\ job.phase = "new"
    /\ LET L == Len(job.payload)
           w == IF job.variant = "V"
                THEN WriteDelimited(job.payload, L, varint_encode(U64(L), VarintMax).n, L)
                ELSE WriteFramed(job.payload, L, HdrLen, L)
       IN  /\ job' = [job EXCEPT !.wret = w.ret, !.phase = "sent"]
           /\ wire' = w.sent
           /\ \E max_len \in L..(L + 1) : frd' = RdStart(job.variant, max_len)
    /\ UNCHANGED <<unit, calls, main, hvars, cvars, rvars, tvars>>

\* recv(fd, &b, 1, 0)
CodecRecvPrefix ==
    /\ unit = "codec" /\ job.phase = "sent"
    /\ frd.phase = "hdr" /\ frd.variant = "V" /\ wire # <<>>
    /\ frd' = RdVarintByte(frd, Head(wire))
    /\ wire' = Tail(wire)
    /\ UNCHANGED <<unit, calls, main, hvars, cvars, rvars, tvars, job>>

\* recv(fd, (char *)&payload_len + total, 4 - total, 0) returns 1..4 - total bytes
CodecRecvHeader ==
    /\ unit = "codec" /\ job.phase = "sent"
    /\ frd.phase = "hdr" /\ frd.variant = "F"
    /\ \E n \in 1..Min(HdrLen - frd.hdr, Len(wire)) :
          /\ frd' = RdHeaderBytes(frd, SubSeq(wire, 1, n))
          /\ wire' = SubSeq(wire, n + 1, Len(wire))
    /\ UNCHANGED <<unit, calls, main, hvars, cvars, rvars, tvars, job>>

\* recv(fd, buf + total, len - total, 0) returns 1..len - total bytes
CodecRecvBody ==
    /\ unit = "codec" /\ job.phase = "sent" /\ frd.phase = "body"
    /\ \E n \in 1..Min(AsInt(frd) - frd.total, Len(wire)) :
          /\ frd' = RdBodyBytes(frd, SubSeq(wire, 1, n))
          /\ wire' = SubSeq(wire, n + 1, Len(wire))
    /\ UNCHANGED <<unit, calls, main, hvars, cvars, rvars, tvars, job>>

NextCodec ==
    CodecEncode \/ CodecWrite \/ CodecRecvPrefix \/ CodecRecvHeader \/ CodecRecvBody

SpecCodec == InitCodec /\ [][NextCodec]_vars

(***************************************************************************)
(* All subsystems, one per behaviour                                       *)
(***************************************************************************)
(***************************************************************************)
(* Restart harness: amf_cnode_start and amf_cnode_stop called in any state *)
(* The client threads are kept by handle; each runs cnode_thread, of which *)
(* only the tests of g_running and the life of the session socket are kept.*)
(***************************************************************************)
InitRestart ==
    /\ unit = "restart" /\ calls = NoCalls /\ main = "idle"
    /\ frd = RdIdle
    /\ HealthStopped
    /\ CnodeStopped
    /\ TasksStopped
    /\ CodecStopped
    /\ RegStopped

\* the handles pthread_create can hand out
FreeHandles == {t \in 1..MaxTasks : task[t] = "none"}

\* amf_cnode_start, whatever the state of the client: it has no test of
\* g_running; pthread_create stores the new handle over the old one
RestartStartWith(o) ==
    /\ unit = "restart" /\ main = "idle"
    /\ LET r == StartResult(o)
       IN  /\ IF r.setip THEN \E ip \in {"valid", "invalid"} : g_server_ip' = ip
                         ELSE g_server_ip' = g_server_ip
           /\ g_running' = r.running
           /\ IF r.thread
              THEN /\ FreeHandles # {}
                   /\ \E t \in FreeHandles :
                         /\ \A u \in FreeHandles : t <= u
                         /\ g_thread' = t
                         /\ task' = [task EXCEPT ![t] = "loop"]
              ELSE UNCHANGED tvars
           /\ calls' = LogCall(StartLog(o, r))
    /\ UNCHANGED <<unit, main, frd, hvars, kvars, rvars, cpc, backoff, slept,
                   fails, crd, cconn>>

RestartStart == \E o \in StartOutcomes : RestartStartWith(o)

\* amf_cnode_stop up to g_running = 0
RestartStop ==
    /\ unit = "restart" /\ main = "idle"
    /\ IF CnodeStopIsNoop
       THEN /\ calls' = LogCall("stop_noop")
            /\ UNCHANGED <<main, g_running>>
       ELSE /\ calls' = LogCall("stop")
            /\ g_running' = 0
            /\ main' = "cn_join"
    /\ UNCHANGED <<unit, frd, hvars, kvars, rvars, tvars, g_server_ip, cpc,
                   backoff, slept, fails, crd, cconn>>

\* pthread_join(g_thread, NULL) returns when the thread of that handle ended
RestartJoin ==
    /\ unit = "restart" /\ main = "cn_join"
    /\ g_thread \in 1..MaxTasks /\ JoinReturns(task[g_thread])
    /\ task' = [task EXCEPT ![g_thread] = "none"]
    /\ main' = "idle"
    /\ UNCHANGED <<unit, calls, frd, hvars, cvars, kvars, rvars, g_thread>>

\* while (g_running) { rc = serve_session(); ...: the dial succeeds, or
\* serve_session returns -1 at once
TaskLoop(t) ==
    /\ unit = "restart" /\ task[t] = "loop"
    /\ IF g_running = 1
       THEN \E dialled \in BOOLEAN :
               task' = [task EXCEPT ![t] = IF dialled THEN "session" ELSE "wait"]
       ELSE task' = [task EXCEPT ![t] = "done"]
    /\ UNCHANGED <<unit, calls, main, frd, hvars, cvars, kvars, rvars, g_thread>>

\* the session ends: close(sfd); return g_running ? -1 : 0; if (rc == 0) break;
TaskSessionEnd(t) ==
    /\ unit = "restart" /\ task[t] = "session"
    /\ task' = [task EXCEPT ![t] = IF SessionRet(g_running) # 0 THEN "wait"
                                   ELSE "done"]
    /\ UNCHANGED <<unit, calls, main, frd, hvars, cvars, kvars, rvars, g_thread>>

\* the backoff wait ends, by its count or by the flag
TaskWaitEnd(t) ==
    /\ unit = "restart" /\ task[t] = "wait"
    /\ task' = [task EXCEPT ![t] = "loop"]
    /\ UNCHANGED <<unit, calls, main, frd, hvars, cvars, kvars, rvars, g_thread>>

RestartTask ==
    \E t \in 1..MaxTasks : TaskLoop(t) \/ TaskSessionEnd(t) \/ TaskWaitEnd(t)

NextRestart == RestartStart \/ RestartStop \/ RestartJoin \/ RestartTask

SpecRestart == InitRestart /\ [][NextRestart]_vars

Init == InitFrame \/ InitHealth \/ InitCnode \/ InitReg \/ InitCodec \/ InitRestart

Next == NextFrame \/ NextHealth \/ NextCnode \/ NextReg \/ NextCodec \/ NextRestart

Spec == Init /\ [][Next]_vars

(***************************************************************************)
(* Properties                                                              *)
(***************************************************************************)
IsPrefix(s, t) == Len(s) <= Len(t) /\ s = SubSeq(t, 1, Len(s))

\* C1: for every accepted connection, whatever read_delimited returned (a
\* frame, a timeout, EOF, a malformed or oversized prefix), handle_connection
\* calls write_delimited exactly once before it closes the connection, and the
\* frame it writes is [02 08 01] (SERVING), never NOT_SERVING: the bytes on the
\* wire are a prefix of that frame, and the whole frame when the sends succeeded.
C1_AlwaysServing ==
    /\ conn.writes <= 1
    /\ (hpc = "close" \/ conn.state = "closed") <=> conn.writes = 1
    /\ IsPrefix(conn.wire, <<2, 8, 1>>)
    /\ (conn.writes = 1 /\ conn.wret = 0) => conn.wire = <<2, 8, 1>>

\* C1 witness: the request read failed and the client still got SERVING
C1_ServingAfterFailedRead ==
    /\ conn.state = "closed" /\ conn.rret = -1 /\ conn.wire = <<2, 8, 1>>

\* C2: in a session whose identity frame was sent, every request frame that
\* read_framed returns (n >= 0, any payload X, the empty one included) is followed
\* by exactly one write_framed, whose frame is [02 00 00 00 08 01] whatever X is:
\* the bytes on the wire are a prefix of that frame, the whole frame when the
\* sends succeeded; a failed write ends the session.
C2_RequestAnswered ==
    /\ [](cconn.attempts = IF cpc = "ss_reply" THEN cconn.reqs - 1 ELSE cconn.reqs)
    /\ [](cconn.reqs > 0 => cconn.idsent = <<2, 0, 0, 0, 8, 13>>)
    /\ [][(cpc = "ss_reply" /\ cpc' # "ss_reply") =>
            /\ cconn'.attempts = cconn.attempts + 1
            /\ IsPrefix(cconn'.rep, <<2, 0, 0, 0, 8, 1>>)
            /\ cconn'.wret = 0 =>
                  /\ cconn'.rep = <<2, 0, 0, 0, 8, 1>>
                  /\ cconn'.replies = cconn.replies + 1
                  /\ cpc' = "ss_loop"
            /\ cconn'.wret # 0 => cpc' = "ss_close"]_vars

\* C2 witness: the second request of a session, an empty one, was answered in full
C2_EmptyRequestAnswered ==
    /\ cpc = "ss_loop" /\ cconn.reqs = 2 /\ cconn.replies = 2
    /\ cconn.x = <<>> /\ cconn.rep = <<2, 0, 0, 0, 8, 1>>

\* C3: N counts the sessions of the running thread that ended in failure (the
\* code never resets backoff).  The wait after the N-th failure is
\* min(2^(N-1), 30) one-second sleeps: that is the value of backoff during the
\* wait, the wait ends with slept = backoff while the flag is set, and backoff
\* stays within 1..30.
C3_BackoffSchedule ==
    /\ backoff \in 1..30
    /\ slept <= 30
    /\ cpc \in {"ct_wait", "ct_sleep", "ct_double"} =>
          /\ fails >= 1
          /\ slept <= backoff
          /\ fails < MaxFails => backoff = Min(2 ^ (fails - 1), 30)
          /\ fails >= 6 => backoff = 30
          /\ cpc = "ct_sleep" => slept < backoff
          /\ (cpc = "ct_double" /\ g_running = 1) => slept = backoff
    /\ (cpc \notin {"none", "ct_wait", "ct_sleep", "ct_double"} /\ fails < MaxFails) =>
          backoff = Min(2 ^ fails, 30)

\* C3 witness: the wait after the 7th failure ended after 30 sleeps
C3_SeventhWait ==
    /\ cpc = "ct_double" /\ g_running = 1 /\ fails = 7 /\ slept = 30

\* C4: once amf_cnode_stop cleared g_running while the thread is in its backoff
\* wait, the thread starts no further sleep after the one in progress, makes no
\* dial attempt, and terminates.
C4_StopDuringBackoff ==
    /\ [][(g_running = 0 /\ cpc = "ct_wait") => cpc' # "ct_sleep"]_vars
    /\ [][(g_running = 0 /\ cpc \in {"ct_wait", "ct_sleep", "ct_double", "ct_loop"})
             => cpc' # "ss_dial"]_vars
    /\ (g_running = 0 /\ cpc \in {"ct_wait", "ct_sleep"}) ~> (cpc = "done")

\* C4 witness: the thread ended after one sleep of a wait of 16 or 30
C4_WaitCutShort ==
    /\ cpc = "done" /\ g_running = 0 /\ main = "cn_join"
    /\ slept = 1 /\ backoff = BackoffCap

\* C5: once amf_cnode_stop cleared g_running, the thread terminates and the join
\* returns, whatever the server does.
C5_StopTerminates == (main = "cn_join") ~> (main = "idle")

\* C5 witness: stop is joining a thread that waits in recv for the rest of a frame
\* the server does not send
C5_StuckInRecv ==
    /\ main = "cn_join" /\ g_running = 0
    /\ cpc = "ss_read" /\ crd.phase = "hdr" /\ crd.hdr = 1 /\ cconn.peer = "silent"

\* C6: amf_health_close and amf_cnode_stop, called when the last call was not a
\* successful open/start (never opened, a disabled or failed open, or an earlier
\* close/stop that returned), return at once: no join, no change of any state.
C6_StopIdempotent ==
    [][/\ (AmfHealthClose /\ calls[2] # "open_ok") =>
             UNCHANGED <<unit, kvars, rvars, main, frd, hvars, cvars>>
       /\ (AmfCnodeStop /\ calls[2] # "start_ok") =>
             UNCHANGED <<unit, kvars, rvars, main, frd, hvars, cvars>>]_vars

\* C6 witness: amf_health_close returned from a second call after a first
C6_SecondClose ==
    /\ calls = <<"close", "close_noop">> /\ main = "idle"
    /\ server_fd = NoFd /\ server_running = 0 /\ hpc = "none"

\* C7: a frame whose declared length (the unsigned value of the prefix) exceeds
\* max_len makes the read return an error with no payload byte read.
C7_OversizedRejected ==
    (frd.decoded /\ DeclaredExceeds(frd)) =>
        (frd.phase = "done" /\ frd.ret < 0 /\ frd.total = 0)

\* C7 witness: read_delimited returned 1 payload byte of a frame declared 2^32 + 1
C7_TruncatedLength ==
    /\ frd.variant = "V" /\ frd.phase = "done" /\ HighBits(frd)
    /\ frd.max_len >= 1 /\ frd.ret = 1 /\ frd.total = 1

\* C8: read_delimited and read_framed never store more than max_len bytes in the
\* caller's buffer, and the body recv calls never ask for bytes past max_len.
C8_BufferBound ==
    \A rd \in {frd, hrd, crd, rrd} :
        /\ rd.total <= rd.max_len
        /\ Len(rd.buf) = rd.total
        /\ rd.req <= rd.max_len
        /\ rd.total <= rd.req

\* C8 witness: short reads filled the buffer to max_len exactly
C8_BufferFull ==
    /\ frd.phase = "done" /\ frd.max_len = MaxLen
    /\ frd.total = frd.max_len /\ frd.ret = frd.max_len

\* C9: amf_health_close, called while the server listens, ends with the accept
\* loop over, the join returned and the server Stopped.
C9_CloseTerminates ==
    (main = "hc_close") ~>
        (main = "idle" /\ server_fd = NoFd /\ server_running = 0 /\ hpc = "none")

\* C9 witness: close is joining a thread still blocked in accept
C9_StuckInAccept ==
    /\ main = "hc_join" /\ server_running = 0 /\ server_fd = NoFd
    /\ hpc = "blocked" /\ lsock = "orphan"

\* C10: health_server_loop ends only after server_running was cleared or the
\* listening socket was closed: no failed accept and no failed connection ends it
\* while the flag is set and the socket listens.
C10_LoopEndsOnlyOnClose ==
    [][(hpc # "done" /\ hpc' = "done") =>
          (server_running = 0 \/ lsock # "listening")]_vars

\* C10 witness: the loop went on after a failed reply and a failed accept
C10_LoopSurvivesErrors ==
    /\ hpc = "loop" /\ herrno = "EOTHER"
    /\ server_running = 1 /\ lsock = "listening"
    /\ conn.state = "closed" /\ conn.wret = -1

\* C11: a task that is not servicing a connection holds no open socket: the
\* cnode thread outside serve_session (backoff, about to dial, terminated), the
\* accept loop outside handle_connection, a registration task that has ended;
\* the registration socket is closed once.
C11_NoSocketLeak ==
    /\ cpc \in {"none", "done", "ct_loop", "ct_wait", "ct_sleep", "ct_double",
                "ss_dial"} => cconn.state # "open"
    /\ cpc \in {"ss_ident", "ss_loop", "ss_poll", "ss_read", "ss_reply", "ss_close"}
          => cconn.state = "open"
    /\ hpc \notin {"read", "close"} => conn.state # "open"
    /\ rpc \in {"none", "done", "build", "dial"} => rsock # "open"
    /\ reg.closes <= 1
    /\ rsock = "closed" <=> reg.closes = 1

\* C11 witness: the registration task ended after connect failed, its socket closed
C11_ClosedAfterConnectFail ==
    /\ rpc = "done" /\ rsock = "closed" /\ reg.dials = 1 /\ reg.writes = 0

\* the protobuf varint of n < 2^21, written out
C14_Varint(n) ==
    IF n < 128 THEN <<n>>
    ELSE IF n < 16384 THEN <<128 + (n % 128), n \div 128>>
    ELSE <<128 + (n % 128), 128 + ((n \div 128) % 128), n \div 16384>>

\* C14: do_registration builds 08 0D, 12, varint(len(ip)), the ip bytes, 18,
\* varint(port) and nothing else; ip "10.0.0.1" with port 50051 gives
\* 08 0D 12 08 '1' '0' '.' '0' '.' '0' '.' '1' 18 83 87 03.
C14_RegistrationEncode ==
    rpc \notin {"none", "build"} =>
        /\ proto = <<8, 13, 18>> \o C14_Varint(Len(g_advertise_ip)) \o g_advertise_ip
                      \o <<24>> \o C14_Varint(g_port)
        /\ (g_advertise_ip = <<49, 48, 46, 48, 46, 48, 46, 49>> /\ g_port = 50051) =>
              proto = <<8, 13, 18, 8, 49, 48, 46, 48, 46, 48, 46, 49, 24, 131, 135, 3>>

\* C14 as the spec states it: port 50051 is encoded C3 86 03
C14_SpecExample ==
    (rpc \notin {"none", "build"}
       /\ g_advertise_ip = <<49, 48, 46, 48, 46, 48, 46, 49>> /\ g_port = 50051) =>
        proto = <<8, 13, 18, 8, 49, 48, 46, 48, 46, 48, 46, 49, 24, 195, 134, 3>>

\* C14 witness: the request for "10.0.0.1", port 50051 reached the wire as one frame
C14_ExampleSent ==
    /\ rpc = "done" /\ g_advertise_ip = <<49, 48, 46, 48, 46, 48, 46, 49>>
    /\ g_port = 50051 /\ reg.sent = <<16>> \o proto

\* C15: amf_health_send_registration does nothing when registration is disabled
\* or the server ip or port is missing; otherwise a call starts one task (none
\* when pthread_create fails), which dials, writes and reads at most once each,
\* changes nothing of the health server or the cnode client, and terminates.
C15_SingleShot ==
    /\ [](reg.tasks <= 1 /\ reg.dials <= 1 /\ reg.writes <= 1 /\ reg.reads <= 1)
    /\ []((g_reg_enable = 0 \/ g_reg_server_ip = "" \/ g_reg_server_port = 0) =>
            (rpc = "none" /\ reg = NoReg /\ rsock = "none"))
    /\ [](reg.tasks = 0 => rpc = "none")
    /\ [][AmfHealthSendRegistration =>
            /\ calls'[2] \in {"reg_noop", "reg_started", "reg_nothread"}
            /\ calls'[2] = "reg_started" <=> (rpc' = "build" /\ reg'.tasks = 1)
            /\ calls'[2] # "reg_started" => rpc' \in {"none", "done"}
            /\ calls'[2] = "reg_noop" => UNCHANGED rvars]_vars
    /\ [][NextReg => UNCHANGED <<main, hvars, cvars>>]_vars
    /\ (rpc \notin {"none", "done"}) ~> (rpc = "done")

\* C15 witness: the task ended after its one write failed, with no second attempt
C15_NoRetryAfterFailedWrite ==
    /\ calls[2] = "reg_started" /\ rpc = "done"
    /\ reg.dials = 1 /\ reg.writes = 1 /\ reg.reads = 0 /\ rsock = "closed"

\* the bytes a value of four limbs needs as a varint: one per 7 bits used
C12_Size(v) ==
    LET Groups(l) == IF l >= 16384 THEN 3 ELSE IF l >= 128 THEN 2 ELSE 1
    IN  IF v[4] # 0 THEN 10
        ELSE IF v[3] # 0 THEN 6 + Groups(v[3])
        ELSE IF v[2] # 0 THEN 3 + Groups(v[2])
        ELSE Groups(v[1])

\* the msg_len the prefix decoder holds, as four limbs
C12_Decoded(rd) ==
    <<rd.len[1] + 128 * rd.len[2] + 16384 * rd.len[3],
      rd.len[4] + 128 * rd.len[5] + 16384 * rd.len[6],
      rd.len[7] + 128 * rd.len[8] + 16384 * rd.len[9],
      rd.len[10]>>

\* C12: varint_encode writes at most bufsz bytes, at most 10, and returns -1
\* exactly when the value needs more bytes than bufsz; the prefix decoder of
\* read_delimited, given the bytes of a successful encode, consumes all of them
\* and holds the value encoded (every 64-bit value tried, 2^63 - 1 included).
C12_VarintRoundTrip ==
    (job.kind = "varint" /\ job.phase # "new") =>
        /\ job.n <= job.bufsz /\ Len(job.buf) <= job.bufsz
        /\ job.n <= 10
        /\ job.n = -1 <=> C12_Size(job.v) > job.bufsz
        /\ job.n # -1 => (job.n = C12_Size(job.v) /\ Len(job.buf) = job.n)
        /\ (job.phase = "sent" /\ wire = <<>>) =>
              (frd.decoded /\ C12_Decoded(frd) = job.v)
        /\ (job.phase = "sent" /\ frd.decoded) =>
              (wire = <<>> /\ C12_Decoded(frd) = job.v)

\* C12 witness: 2^63 - 1 went through nine bytes and back
C12_LargestValue ==
    /\ job.kind = "varint" /\ job.v = <<2097151, 2097151, 2097151, 0>>
    /\ job.n = 9 /\ frd.decoded /\ wire = <<>>

\* C13: a payload of length L written by write_delimited (write_framed) and read
\* by read_delimited (read_framed) with max_len >= L, the stream split into any
\* short reads, comes back whole: the read returns L, buf holds the payload, and
\* exactly the bytes written were consumed; for the empty payload it returns 0,
\* not -1.
C13_FrameRoundTrip ==
    (job.kind = "frame" /\ job.phase = "sent") =>
        /\ job.wret = 0
        /\ wire = <<>> => frd.phase = "done"
        /\ frd.phase = "done" =>
              /\ wire = <<>>
              /\ frd.ret = Len(job.payload)
              /\ frd.ret >= 0
              /\ frd.buf = job.payload

\* C13 witness: the 130-byte payload, whose varint prefix has two bytes, came back
C13_LongPayloadBack ==
    /\ job.kind = "frame" /\ job.variant = "V" /\ Len(job.payload) = LongLen
    /\ frd.phase = "done" /\ frd.ret = LongLen /\ frd.hdr = 2


\* C16: when amf_health_open is called in the Stopped state and socket(), bind(),
\* listen() or pthread_create() fails, it returns OGS_ERROR and the server is
\* Stopped afterwards: no socket left open, server_fd = -1, server_running = 0,
\* no accept task; when amf_cnode_start fails to spawn its thread it returns
\* OGS_ERROR with g_running = 0 and no client task.
C16_FatalSetupFailure ==
    [][ /\ \A o \in {"socket", "bind", "listen", "thread"} :
              AmfHealthOpenWith(o) =>
                  /\ OpenResult(o).ret = "OGS_ERROR"
                  /\ calls'[2] = "open_error"
                  /\ server_fd' = NoFd /\ server_running' = 0
                  /\ lsock' = "none" /\ hpc' = "none"
        /\ AmfCnodeStartWith("thread") =>
              /\ StartResult("thread").ret = "OGS_ERROR"
              /\ calls'[2] = "start_error"
              /\ g_running' = 0 /\ cpc' = "none" ]_vars

\* C16 witness: an open that failed returned an error and left the server Stopped
C16_StoppedAfterFailedOpen ==
    /\ unit = "health" /\ calls[2] = "open_error" /\ main = "idle"
    /\ server_fd = NoFd /\ server_running = 0 /\ lsock = "none" /\ hpc = "none"

\* C17: between calls of amf_health_open and amf_health_close (open only when
\* Stopped), the listening socket is open (server_fd >= 0) iff server_running is
\* 1 iff an un-joined accept-loop task exists; an open with the server disabled
\* returns OGS_OK and leaves the server Stopped with nothing bound.
C17_HealthStateMachine ==
    /\ [](main = "idle" =>
             /\ (server_fd >= 0) <=> (server_running = 1)
             /\ (server_running = 1) <=> (hpc # "none")
             /\ (server_fd >= 0) <=> (lsock = "listening"))
    /\ [][AmfHealthOpenWith("disabled") =>
             /\ OpenResult("disabled").ret = "OGS_OK"
             /\ calls'[2] = "open_disabled"
             /\ server_fd' = NoFd /\ server_running' = 0
             /\ lsock' = "none" /\ hpc' = "none"]_vars

\* C17 witness: a server that served a connection was closed and is Stopped again
C17_StoppedAfterClose ==
    /\ unit = "health" /\ calls[2] = "close" /\ main = "idle"
    /\ conn.state = "closed"
    /\ server_fd = NoFd /\ server_running = 0 /\ hpc = "none"

\* C18: amf_cnode_start returns OGS_OK without setting g_running and without
\* spawning a task when the client is disabled or the server address is unset
\* or empty; otherwise it sets g_running and spawns one client task whose first
\* backoff value is 1 second.
C18_CnodeStart ==
    /\ [][\A o \in {"disabled", "noip"} :
             AmfCnodeStartWith(o) =>
                 /\ StartResult(o).ret = "OGS_OK"
                 /\ calls'[2] \in {"start_disabled", "start_noip"}
                 /\ UNCHANGED cvars]_vars
    /\ [][AmfCnodeStartWith("ok") =>
             /\ StartResult("ok").ret = "OGS_OK"
             /\ calls' = <<"none", "start_ok">>
             /\ g_running' = 1 /\ cpc' = "ct_loop" /\ backoff' = 1]_vars
    /\ []((cpc \in {"ct_wait", "ct_sleep"} /\ fails = 1) => backoff = 1)

\* C18 witness: a start with no server address returned and nothing runs
C18_NoAddressNoTask ==
    /\ unit = "cnode" /\ calls[2] = "start_noip"
    /\ g_running = 0 /\ cpc = "none" /\ g_server_ip = ""

\* C19: serve_session returns 0 only if g_running is clear when it returns and
\* -1 otherwise, so the client task ends only after g_running was cleared; while
\* g_running stays set, every ended session or failed dial (an invalid server IP
\* included) is followed by a backoff wait and another dial, without limit.
C19_ReconnectPersistence ==
    /\ [][(cpc # "done" /\ cpc' = "done") => g_running = 0]_vars
    /\ [][(cpc = "ss_close" /\ cpc' # "ss_close") =>
             /\ SessionRet(g_running) = 0 <=> g_running = 0
             /\ cpc' = (IF g_running = 0 THEN "done" ELSE "ct_wait")]_vars
    /\ [][(cpc \in {"ss_dial", "ss_ident"} /\ cpc' \notin {cpc, "ss_ident", "ss_loop"}) =>
             cpc' = "ct_wait"]_vars
    /\ (cpc = "ct_wait" /\ g_running = 1) ~> (cpc = "ss_dial" \/ g_running = 0)

\* C19 witness: with an invalid server IP the task is dialling again after
\* MaxFails failed attempts
C19_StillDialling ==
    /\ g_running = 1 /\ g_server_ip = "invalid"
    /\ cpc = "ss_dial" /\ fails = MaxFails

\* the identity frame as the specification writes it
C20_Identity == <<2, 0, 0, 0, 8, 13>>

\* C20: on every connection the client opens, the first frame written is
\* [02 00 00 00][08 0D], written once; no response is written and no request is
\* read before the identity write succeeded; when the identity write fails the
\* socket is closed and the session fails without entering the serve loop.
C20_IdentityFirst ==
    /\ [](IsPrefix(cconn.idsent, C20_Identity))
    /\ []((cconn.state = "open" /\ cpc \notin {"ss_dial", "ss_ident"}) =>
             cconn.idsent = C20_Identity)
    /\ []((cconn.reqs > 0 \/ cconn.attempts > 0 \/ cconn.replies > 0) =>
             cconn.idsent = C20_Identity)
    /\ [](cpc = "ss_ident" => cconn.idsent = <<>>)
    /\ [][(cpc = "ss_ident" /\ cpc' # "ss_ident") =>
             \/ /\ cconn'.wret = 0 /\ cconn'.idsent = C20_Identity
                /\ cconn'.state = "open" /\ cpc' = "ss_loop"
             \/ /\ cconn'.wret = -1 /\ cconn'.idsent # C20_Identity
                /\ cconn'.state = "closed" /\ cpc' = "ct_wait"]_vars

\* C20 witness: the identity write stopped after its header; the socket is closed
\* and the task waits to dial again
C20_IdentityWriteFailed ==
    /\ cpc = "ct_wait" /\ cconn.state = "closed" /\ cconn.wret = -1
    /\ cconn.idsent = <<2, 0, 0, 0>> /\ cconn.reqs = 0 /\ cconn.replies = 0


\* C21: on a cnode connection no reply is written that was not preceded by a
\* successfully read request: (replies written) <= (requests read) <= (replies
\* written) + 1 at every moment, and a poll timeout causes no read and no write.
\* On the health server at most one accepted connection is open at a time, it
\* receives at most one reply, and the next accept happens only after the
\* previous connection was closed.
C21_StrictOrder ==
    /\ [](/\ cconn.replies <= cconn.attempts
          /\ cconn.attempts <= cconn.reqs
          /\ cconn.reqs <= cconn.replies + 1
          /\ (cconn.reqs > cconn.attempts) => cpc = "ss_reply")
    /\ [][(cpc = "ss_poll" /\ cpc' = "ss_loop") => UNCHANGED <<crd, cconn>>]_vars
    /\ [][(cconn'.attempts # cconn.attempts /\ cconn'.state = "open") =>
             (cpc = "ss_reply" /\ cconn.reqs = cconn.attempts + 1)]_vars
    /\ [](conn.writes <= 1)
    /\ [](conn.state = "open" <=> hpc \in {"read", "close"})
    /\ [][(hpc # "read" /\ hpc' = "read") =>
             (conn.state # "open" /\ conn'.writes = 0 /\ conn'.state = "open")]_vars

\* C21 witness: the second request of a connection was read after the first was
\* answered, and is not answered yet
C21_SecondRequestPending ==
    /\ cpc = "ss_reply" /\ cconn.state = "open"
    /\ cconn.reqs = 2 /\ cconn.replies = 1 /\ cconn.attempts = 1


\* C22: the cnode backoff is never reset: it does not decrease over the life of
\* the client task; it changes only where the wait ends, to the doubled and
\* capped value; a session that connected, sent its identity, answered health
\* checks and then ended with an error leaves it as it was, so the next wait is
\* the doubled value of the previous one, not 1 second.
C22_BackoffNeverReset ==
    /\ [][(cpc # "none" /\ cpc' # "none") => backoff' >= backoff]_vars
    /\ [][(cpc # "none" /\ cpc' # "none" /\ backoff' # backoff) =>
             (cpc = "ct_double" /\ backoff' = Min(2 * backoff, 30))]_vars
    /\ [][(cpc = "ss_close" /\ cpc' = "ct_wait") =>
             (backoff' = backoff /\ slept' = 0)]_vars
    /\ []((cpc \in {"ct_wait", "ct_sleep"} /\ fails \in 2..(MaxFails - 1)) =>
             backoff = Min(2 * (2 ^ (fails - 2)), 30))

\* C22 witness: a session that answered a health check ends with an error
\* after two earlier failures; backoff is still 4
C22_ServedSessionEnds ==
    /\ cpc = "ss_close" /\ g_running = 1 /\ cconn.state = "open"
    /\ cconn.idsent = C20_Identity /\ cconn.replies >= 1
    /\ fails = 2 /\ backoff = 4


\* the client threads that have not returned, and those with a socket open
C23_Alive == {t \in 1..MaxTasks : task[t] \in {"loop", "session", "wait"}}
C23_Connected == {t \in 1..MaxTasks : task[t] = "session"}

\* C23: for every sequence of amf_cnode_start and amf_cnode_stop calls,
\* amf_cnode_start called again while the client runs included, at most one
\* client task and at most one open cnode connection exist at any time, and
\* every task that was started is joined by a later amf_cnode_stop: once a stop
\* has returned no thread is left that was not joined.
C23_SingleTask ==
    /\ Cardinality(C23_Alive) <= 1
    /\ Cardinality(C23_Connected) <= 1
    /\ (main = "idle" /\ calls[2] = "stop") => task = NoTasks

\* C23 witness: amf_cnode_start was called twice; two client threads hold a
\* connection each, and g_thread is the handle of the second
C23_TwoSessions ==
    /\ unit = "restart" /\ g_running = 1 /\ g_thread = 2
    /\ task[1] = "session" /\ task[2] = "session"


\* C24: when amf_cnode_stop (after a successful start) or amf_health_close (from
\* Listening) returns, the background task has terminated, every socket it had
\* opened or accepted is closed, and that subsystem reads and writes no frame
\* until the next start or open.
C24_QuiescentAfterStop ==
    /\ [][(unit = "cnode" /\ main = "cn_join" /\ main' = "idle") =>
             (cpc = "done" /\ cpc' = "none" /\ g_running' = 0)]_vars
    /\ [][(unit = "health" /\ main = "hc_join" /\ main' = "idle") =>
             (hpc = "done" /\ hpc' = "none" /\ server_fd' = NoFd)]_vars
    /\ []((unit = "cnode" /\ main = "idle" /\ g_running = 0) =>
             (cpc = "none" /\ cconn.state # "open" /\ crd = RdIdle))
    /\ []((unit = "health" /\ main = "idle" /\ server_fd = NoFd) =>
             /\ hpc = "none" /\ lsock = "none"
             /\ conn.state # "open" /\ hrd = RdIdle)
    /\ [][(cpc = "none" /\ cpc' = "none") => UNCHANGED <<crd, cconn>>]_vars
    /\ [][(hpc = "none" /\ hpc' = "none") => UNCHANGED <<hrd, conn, lsock>>]_vars

\* C24 witness: amf_cnode_stop returned after the thread had dialled; the thread
\* is gone and its socket closed
C24_StoppedAfterSession ==
    /\ unit = "cnode" /\ calls = <<"start_ok", "stop">> /\ main = "idle"
    /\ g_running = 0 /\ cpc = "none" /\ cconn.state = "closed" /\ fails = 0

=============================================================================
